---- MODULE Spec2Model ----
(***************************************************************************)
(* Model of Processing/add_eval.py: is_valid_fen and add_eval.            *)
(*                                                                         *)
(* A DataFrame is a record [columns, index, rows]: the set of column      *)
(* names, the sequence of index labels and the sequence of rows, a row    *)
(* being a function from column names to cells.  DataFrames are objects:  *)
(* `heap` holds the caller's object and the one add_eval works on, and    *)
(* `df` names the object the local variable df is bound to.               *)
(*                                                                         *)
(* Cells are tagged records: a string [t |-> "str", ...], a missing       *)
(* value NaN [t |-> "float"], a pandas Timestamp, NaT, a monthly Period,  *)
(* a python float (decimal, two places) and None.                          *)
(***************************************************************************)
EXTENDS Integers, Sequences, FiniteSets, TLC

VARIABLES
    heap,           \* DataFrame objects: heap.caller (move_df), heap.local
    df,             \* the object the local variable df is bound to
    start_date,     \* argument: None or a 'YYYY-MM' string
    end_date,       \* argument: None or a 'YYYY-MM' string
    pc,             \* position in add_eval
    stockfish,      \* the engine handle: "unbound", "open" or "quit"
    engine_log,     \* every call made on the engine handle, in order
    evals,          \* the list evals
    total,          \* the local total
    invalid_count,  \* the local invalid_count
    pos,            \* number of rows the loop is done with
    stdout,         \* the lines printed
    exc,            \* the exception that left add_eval, if any
    ret,            \* the DataFrame add_eval returned, if any
    orig            \* move_df as it was when add_eval was called

vars == <<heap, df, start_date, end_date, pc, stockfish, engine_log, evals,
          total, invalid_count, pos, stdout, exc, ret, orig>>

(***************************************************************************)
(* Bounds of the model.                                                    *)
(***************************************************************************)
MaxLen == 2          \* rows of move_df in Spec
Slack == 1           \* SpecProgress: move_df has PROGRESS_EVERY -+ Slack rows

\* add_eval.py line 99: (index + 1) % 50
PROGRESS_EVERY == 50

(***************************************************************************)
(* Cells.                                                                  *)
(***************************************************************************)
None == [t |-> "None"]
NaN == [t |-> "float", nan |-> TRUE]
NaT == [t |-> "NaT"]
NoFrame == [columns |-> {}, index |-> <<>>, rows |-> <<>>]

\* A FEN string, by what python-chess makes of it.
FenStr(kind) == [t |-> "str", fen |-> kind]
\* A date string 'YYYY-MM-DD'; Garbage is a string that is no date.
DateStr(y, m, d) == [t |-> "str", text |-> <<y, m, d>>]
Garbage == [t |-> "str", text |-> <<>>]
\* A 'YYYY-MM' string.
MonthStr(y, m) == [t |-> "str", text |-> <<y, m>>]

IsStr(c) == c.t = "str"

(***************************************************************************)
(* is_valid_fen (lines 18-24).  chess.Board(fen) raises on a value that   *)
(* is no string and on a string that is no FEN; board.is_valid() tells    *)
(* whether the parsed position is legal.                                   *)
(***************************************************************************)
BoardRaises(fen) == ~IsStr(fen) \/ fen.fen = "malformed"

BoardIsValid(fen) == fen.fen = "legal"

\* A slip: the legality check left out, a FEN that parses passes.
is_valid_fen_parse_only(fen) == ~BoardRaises(fen)

is_valid_fen(fen) == IF BoardRaises(fen) THEN FALSE ELSE BoardIsValid(fen)

(***************************************************************************)
(* pandas: dates and periods.                                              *)
(***************************************************************************)
\* pd.to_datetime raises on a string that is no date.
DatetimeRaises(c) == IsStr(c) /\ Len(c.text) # 3

\* pd.to_datetime of one cell: a missing value becomes NaT.
to_datetime(c) ==
    IF IsStr(c)
    THEN [t |-> "Timestamp", year |-> c.text[1], month |-> c.text[2],
          day |-> c.text[3]]
    ELSE NaT

\* Series.dt.to_period('M'): the month's ordinal since 1970-01, the day dropped.
to_period_M(ts) ==
    IF ts.t = "NaT" THEN NaT
    ELSE [t |-> "Period", ordinal |-> (ts.year - 1970) * 12 + (ts.month - 1)]

\* pd.Period('YYYY-MM', freq='M')
PeriodOf(s) ==
    [t |-> "Period", ordinal |-> (s.text[1] - 1970) * 12 + (s.text[2] - 1)]

\* A slip: the start month itself excluded.
PeriodGT(a, b) == a.t = "Period" /\ b.t = "Period" /\ a.ordinal > b.ordinal

\* year_month >= period and year_month <= period: False for NaT.
PeriodGE(a, b) == a.t = "Period" /\ b.t = "Period" /\ a.ordinal >= b.ordinal
PeriodLE(a, b) == a.t = "Period" /\ b.t = "Period" /\ a.ordinal <= b.ordinal

(***************************************************************************)
(* pandas: DataFrame operations.                                           *)
(***************************************************************************)
\* df[col] = values, in place
SetColumn(f, col, values) ==
    [f EXCEPT !.columns = @ \cup {col},
              !.rows = [k \in 1..Len(f.rows) |->
                          [c \in DOMAIN f.rows[k] \cup {col} |->
                              IF c = col THEN values[k] ELSE f.rows[k][c]]]]

RECURSIVE Positions(_, _)
\* The positions k..Len(mask) where mask holds, in order.
Positions(mask, k) ==
    IF k > Len(mask) THEN <<>>
    ELSE (IF mask[k] THEN <<k>> ELSE <<>>) \o Positions(mask, k + 1)

\* The rows at the positions keep, labels kept.
SelectRows(f, keep) ==
    [columns |-> f.columns,
     index |-> [k \in 1..Len(keep) |-> f.index[keep[k]]],
     rows |-> [k \in 1..Len(keep) |-> f.rows[keep[k]]]]

\* A slip: rows repeating the fen of an earlier kept row are dropped
\* (drop_duplicates on the filtered rows).
BooleanIndex_drop_duplicates(f, mask) ==
    SelectRows(f, Positions([k \in 1..Len(mask) |->
        /\ mask[k]
        /\ \A q \in 1..(k - 1) :
              ~mask[q] \/ f.rows[q]["fen"] # f.rows[k]["fen"]], 1))

\* df[mask]: a new DataFrame of the rows whose mask holds, labels kept.
BooleanIndex(f, mask) == SelectRows(f, Positions(mask, 1))

\* df.drop(columns=[col]): a new DataFrame
DropColumn(f, col) ==
    [columns |-> f.columns \ {col},
     index |-> f.index,
     rows |-> [k \in 1..Len(f.rows) |->
                 [c \in DOMAIN f.rows[k] \ {col} |-> f.rows[k][c]]]]

\* df.reset_index(drop=True): a new DataFrame labelled 0..n-1
ResetIndex(f) == [f EXCEPT !.index = [k \in 1..Len(f.rows) |-> k - 1]]

\* A slip: df = move_df, the caller's object itself.
DataFrameAlias(h, r) == [heap |-> h, ref |-> r]

\* move_df.copy(): a new object holding the same data
DataFrameCopy(h, r) == [heap |-> [h EXCEPT !.local = h[r]], ref |-> "local"]

\* A new object for a DataFrame an expression built; the one df was bound
\* to, if it was not the caller's, is garbage from then on.
NewObject(h, f) == [heap |-> [h EXCEPT !.local = f], ref |-> "local"]

(***************************************************************************)
(* The engine.  A call on the handle either raises or answers; the answer *)
(* of get_evaluation is a dict, a set of <<key, value>> pairs.             *)
(***************************************************************************)
Dict(type, value) == {<<"type", type>>, <<"value", value>>}
HasKey(d, k) == \E p \in d : p[1] = k
DictGet(d, k) == (CHOOSE p \in d : p[1] = k)[2]

Evaluations ==
    {Dict("cp", 250), Dict("cp", -125), Dict("mate", -3), Dict("other", 7), {}}

SetFails == [set |-> "raise", get |-> "none", evaluation |-> {}]
GetFails == [set |-> "ok", get |-> "raise", evaluation |-> {}]
Answers(d) == [set |-> "ok", get |-> "ok", evaluation |-> d]

\* What the engine may do when asked about one position.
EngineOutcomes == {SetFails, GetFails} \cup {Answers(d) : d \in Evaluations}
\* An engine that answers every position with the same score.
SteadyOutcomes == {Answers(Dict("cp", 250))}

(***************************************************************************)
(* Lines 86-90: the value extracted from the engine's answer.              *)
(***************************************************************************)
Abs(n) == IF n < 0 THEN -n ELSE n

\* value / 100.0: a python float, written as a decimal with two places
Div100(v) ==
    [t |-> "float", nan |-> FALSE, neg |-> v < 0,
     whole |-> Abs(v) \div 100, frac |-> Abs(v) % 100]

DigitChars == <<"0", "1", "2", "3", "4", "5", "6", "7", "8", "9">>

RECURSIVE Digits(_)
Digits(n) ==
    IF n < 10 THEN <<DigitChars[n + 1]>>
    ELSE Digits(n \div 10) \o <<DigitChars[(n % 10) + 1]>>

\* str(n) of an int
IntStr(n) == IF n < 0 THEN <<"-">> \o Digits(-n) ELSE Digits(n)

\* f"M{value}"
MateStr(v) == [t |-> "str", text |-> <<"M">> \o IntStr(v)]

\* Lines 87-90.  A missing key raises KeyError.
ExtractValue(evaluation) ==
    IF ~HasKey(evaluation, "type") \/ ~HasKey(evaluation, "value")
    THEN [raised |-> TRUE, value |-> None]
    ELSE IF DictGet(evaluation, "type") = "cp"
         THEN [raised |-> FALSE, value |-> Div100(DictGet(evaluation, "value"))]
         ELSE [raised |-> FALSE, value |-> MateStr(DictGet(evaluation, "value"))]

\* Lines 83-92, the try body on row k under engine outcome o: the calls
\* made on the handle, whether an exception was raised, the value appended.
TryBody(k, fen, o) ==
    LET setcall == [op |-> "set_fen_position", at |-> k, arg |-> fen,
                    raised |-> o.set = "raise", result |-> {}]
        getcall == [op |-> "get_evaluation", at |-> k, arg |-> fen,
                    raised |-> o.get = "raise", result |-> o.evaluation]
        x == ExtractValue(o.evaluation)
    IN IF o.set = "raise"
       THEN [calls |-> <<setcall>>, raised |-> TRUE, value |-> None]
       ELSE IF o.get = "raise"
            THEN [calls |-> <<setcall, getcall>>, raised |-> TRUE, value |-> None]
            ELSE [calls |-> <<setcall, getcall>>, raised |-> x.raised,
                  value |-> x.value]

\* Lines 98-100: the progress line, printed when (index + 1) % 50 == 0.
Progress(label, tot, inv) ==
    IF (label + 1) % PROGRESS_EVERY = 0
    THEN <<[line |-> "Evaluated", n |-> label + 1, total |-> tot, invalid |-> inv]>>
    ELSE <<>>

\* add_eval never closes the handle: when the call ends, whether the
\* library's finalizer has run is up to the interpreter.
HandleAtExit == IF stockfish = "open" THEN {"open", "quit"} ELSE {stockfish}

(***************************************************************************)
(* add_eval (lines 26-106).                                                *)
(***************************************************************************)
FilterRequested == start_date # None \/ end_date # None

\* Line 46: df = move_df.copy()
CopyInput ==
    /\ pc = "call"
    /\ LET c == DataFrameCopy(heap, "caller")
       IN /\ heap' = c.heap
          /\ df' = c.ref
    /\ pc' = "filter"
    /\ UNCHANGED <<start_date, end_date, stockfish, engine_log, evals, total,
                   invalid_count, pos, stdout, exc, ret, orig>>

\* Line 49, no date range: on to line 66.
SkipFilter ==
    /\ pc = "filter"
    /\ ~FilterRequested
    /\ pc' = "engine"
    /\ UNCHANGED <<heap, df, start_date, end_date, stockfish, engine_log, evals,
                   total, invalid_count, pos, stdout, exc, ret, orig>>

\* A slip: the engine started before the columns are looked at.
RaiseMissingColumn_engine_first ==
    /\ pc = "filter"
    /\ FilterRequested
    /\ "date" \notin heap[df].columns
    /\ pc' = "raised"
    /\ exc' = "ValueError: DataFrame must have 'date' column for date filtering"
    /\ stockfish' = "open"
    /\ UNCHANGED <<heap, df, start_date, end_date, engine_log, evals, total,
                   invalid_count, pos, stdout, ret, orig>>

\* Lines 49-51: a date range and no 'date' column.
RaiseMissingColumn ==
    /\ pc = "filter"
    /\ FilterRequested
    /\ "date" \notin heap[df].columns
    /\ pc' = "raised"
    /\ exc' = "ValueError: DataFrame must have 'date' column for date filtering"
    /\ stockfish' \in HandleAtExit
    /\ UNCHANGED <<heap, df, start_date, end_date, engine_log, evals, total,
                   invalid_count, pos, stdout, ret, orig>>

\* Line 53: pd.to_datetime raises on a value that is no date.
RaiseDateParse ==
    /\ pc = "filter"
    /\ FilterRequested
    /\ "date" \in heap[df].columns
    /\ \E k \in 1..Len(heap[df].rows) : DatetimeRaises(heap[df].rows[k]["date"])
    /\ pc' = "raised"
    /\ exc' = "DateParseError"
    /\ stockfish' \in HandleAtExit
    /\ UNCHANGED <<heap, df, start_date, end_date, engine_log, evals, total,
                   invalid_count, pos, stdout, ret, orig>>

\* Line 53: df['date'] = pd.to_datetime(df['date'])
ConvertDates(f) ==
    SetColumn(f, "date", [k \in 1..Len(f.rows) |-> to_datetime(f.rows[k]["date"])])

\* Line 54: df['year_month'] = df['date'].dt.to_period('M')
AddYearMonth(f) ==
    SetColumn(f, "year_month",
              [k \in 1..Len(f.rows) |-> to_period_M(f.rows[k]["date"])])

\* Lines 56-58: df[df['year_month'] >= start_period]
FilterStart(f, start) ==
    IF start # None
    THEN BooleanIndex(f, [k \in 1..Len(f.rows) |->
                            PeriodGE(f.rows[k]["year_month"], PeriodOf(start))])
    ELSE f

\* Lines 59-61: df[df['year_month'] <= end_period]
FilterEnd(f, end) ==
    IF end # None
    THEN BooleanIndex(f, [k \in 1..Len(f.rows) |->
                            PeriodLE(f.rows[k]["year_month"], PeriodOf(end))])
    ELSE f

\* Lines 53-63: the date filter.  Lines 53 and 54 write to the object df
\* is bound to; the filtered DataFrame is a new object.
FilterByDate ==
    /\ pc = "filter"
    /\ FilterRequested
    /\ "date" \in heap[df].columns
    /\ \A k \in 1..Len(heap[df].rows) : ~DatetimeRaises(heap[df].rows[k]["date"])
    /\ LET h2 == [heap EXCEPT ![df] = AddYearMonth(ConvertDates(@))]
           new == NewObject(h2, ResetIndex(DropColumn(
                      FilterEnd(FilterStart(h2[df], start_date), end_date),
                      "year_month")))
       IN /\ heap' = new.heap
          /\ df' = new.ref
    /\ pc' = "engine"
    /\ UNCHANGED <<start_date, end_date, stockfish, engine_log, evals, total,
                   invalid_count, pos, stdout, exc, ret, orig>>

\* Lines 66-70: the engine is started and the loop's locals are set.
StartEngine ==
    /\ pc = "engine"
    /\ stockfish' = "open"
    /\ evals' = <<>>
    /\ total' = Len(heap[df].rows)
    /\ invalid_count' = 0
    /\ pos' = 0
    /\ pc' = "loop"
    /\ UNCHANGED <<heap, df, start_date, end_date, engine_log, stdout, exc, ret,
                   orig>>

\* Line 66: Stockfish(path=STOCK_PATH, depth=depth) raises (no such
\* executable, or the process cannot be started).
StartEngineFails ==
    /\ pc = "engine"
    /\ pc' = "raised"
    /\ exc' = "EngineStartError"
    /\ UNCHANGED <<heap, df, start_date, end_date, stockfish, engine_log, evals,
                   total, invalid_count, pos, stdout, ret, orig>>

\* Lines 72-80 on a row whose fen is a string that fails is_valid_fen.
LoopInvalid ==
    /\ pc = "loop"
    /\ pos < Len(heap[df].rows)
    /\ LET fen == heap[df].rows[pos + 1]["fen"]
           index == heap[df].index[pos + 1]
       IN /\ ~is_valid_fen(fen)
          /\ IsStr(fen)
          /\ stdout' = Append(stdout, [line |-> "Invalid FEN", index |-> index])
    /\ evals' = Append(evals, None)
    /\ invalid_count' = invalid_count + 1
    /\ pos' = pos + 1
    /\ UNCHANGED <<heap, df, start_date, end_date, pc, stockfish, engine_log,
                   total, exc, ret, orig>>

\* Lines 72-77 on a row whose fen is no string: fen[:50] raises TypeError.
LoopInvalidRaises ==
    /\ pc = "loop"
    /\ pos < Len(heap[df].rows)
    /\ LET fen == heap[df].rows[pos + 1]["fen"]
       IN /\ ~is_valid_fen(fen)
          /\ ~IsStr(fen)
    /\ pc' = "raised"
    /\ exc' = "TypeError"
    /\ stockfish' \in HandleAtExit
    /\ UNCHANGED <<heap, df, start_date, end_date, engine_log, evals, total,
                   invalid_count, pos, stdout, ret, orig>>

\* A slip: the except clause lets the exception go on.
Except_reraise(calls, index) ==
    /\ engine_log' = engine_log \o calls
    /\ stdout' = Append(stdout, [line |-> "Error", index |-> index])
    /\ pc' = "raised"
    /\ exc' = "EngineError"
    /\ stockfish' \in HandleAtExit
    /\ UNCHANGED <<heap, df, start_date, end_date, evals, total, invalid_count,
                   pos, ret, orig>>

\* Lines 94-96, then 98-100: the except clause, and the progress line.
Except(calls, index) ==
    /\ engine_log' = engine_log \o calls
    /\ evals' = Append(evals, None)
    /\ stdout' = Append(stdout, [line |-> "Error", index |-> index])
                    \o Progress(index, total, invalid_count)
    /\ pos' = pos + 1
    /\ UNCHANGED <<heap, df, start_date, end_date, pc, stockfish, total,
                   invalid_count, exc, ret, orig>>

\* Line 92, then 98-100: the value is appended, and the progress line.
Appended(calls, index, value) ==
    /\ engine_log' = engine_log \o calls
    /\ evals' = Append(evals, value)
    /\ stdout' = stdout \o Progress(index, total, invalid_count)
    /\ pos' = pos + 1
    /\ UNCHANGED <<heap, df, start_date, end_date, pc, stockfish, total,
                   invalid_count, exc, ret, orig>>

\* Lines 72-100 on a row whose fen passes is_valid_fen, the engine's
\* outcome drawn from outs.
LoopEvaluate(outs) ==
    /\ pc = "loop"
    /\ pos < Len(heap[df].rows)
    /\ LET fen == heap[df].rows[pos + 1]["fen"]
           index == heap[df].index[pos + 1]
       IN /\ is_valid_fen(fen)
          /\ \E o \in outs :
                LET res == TryBody(pos + 1, fen, o)
                IN IF res.raised
                   THEN Except(res.calls, index)
                   ELSE Appended(res.calls, index, res.value)

\* Lines 102-106: the loop is over.
Finish ==
    /\ pc = "loop"
    /\ pos = Len(heap[df].rows)
    /\ heap' = [heap EXCEPT ![df] = SetColumn(@, "eval", evals)]
    /\ stdout' = stdout \o <<[line |-> "Completed", total |-> total],
                             [line |-> "Invalid FENs", invalid |-> invalid_count]>>
    /\ ret' = heap'[df]
    /\ pc' = "returned"
    /\ stockfish' \in HandleAtExit
    /\ UNCHANGED <<df, start_date, end_date, engine_log, evals, total,
                   invalid_count, pos, exc, orig>>

(***************************************************************************)
(* The calls checked.                                                      *)
(***************************************************************************)
FenCells == {FenStr("legal"), FenStr("illegal"), FenStr("malformed"), NaN}

DateCells ==
    {DateStr(2023, 12, 31), DateStr(2024, 1, 1), DateStr(2024, 1, 31),
     DateStr(2024, 2, 1), NaN, Garbage}

DateArgs == {None, MonthStr(2024, 1)}

\* A DataFrame as read_csv gives it: labels 0..n-1.
Frame(fens, dates, withDate) ==
    [columns |-> IF withDate THEN {"fen", "date", "other"} ELSE {"fen", "other"},
     index |-> [k \in 1..Len(fens) |-> k - 1],
     rows |-> [k \in 1..Len(fens) |->
                 IF withDate
                 THEN [fen |-> fens[k], date |-> dates[k], other |-> k]
                 ELSE [fen |-> fens[k], other |-> k]]]

SeqsOf(S, n) == [1..n -> S]

Frames ==
    UNION { { Frame(fens, dates, TRUE) :
                fens \in SeqsOf(FenCells, n), dates \in SeqsOf(DateCells, n) }
            \cup { Frame(fens, fens, FALSE) : fens \in SeqsOf(FenCells, n) }
          : n \in 0..MaxLen }

InitCall(f) ==
    /\ heap = [caller |-> f, local |-> NoFrame]
    /\ orig = f
    /\ df = "unbound"
    /\ pc = "call"
    /\ stockfish = "unbound"
    /\ engine_log = <<>>
    /\ evals = <<>>
    /\ total = 0
    /\ invalid_count = 0
    /\ pos = 0
    /\ stdout = <<>>
    /\ exc = "none"
    /\ ret = NoFrame

Init ==
    /\ start_date \in DateArgs
    /\ end_date \in DateArgs
    /\ \E f \in Frames : InitCall(f)

Next ==
    \/ CopyInput
    \/ SkipFilter
    \/ RaiseMissingColumn
    \/ RaiseDateParse
    \/ FilterByDate
    \/ StartEngine
    \/ StartEngineFails
    \/ LoopInvalid
    \/ LoopInvalidRaises
    \/ LoopEvaluate(EngineOutcomes)
    \/ Finish

Spec == Init /\ [][Next]_vars

(***************************************************************************)
(* Calls on a long DataFrame, for the progress lines: every row a legal   *)
(* position dated in January 2024 but one, and a steady engine.            *)
(***************************************************************************)
LongLens == (PROGRESS_EVERY - Slack)..(PROGRESS_EVERY + Slack)

LongFrame(n, k, fen, date, withDate) ==
    Frame([j \in 1..n |-> IF j = k THEN fen ELSE FenStr("legal")],
          [j \in 1..n |-> IF j = k THEN date ELSE DateStr(2024, 1, 31)],
          withDate)

InitProgress ==
    /\ start_date \in DateArgs
    /\ end_date \in DateArgs
    /\ \E n \in LongLens, fen \in FenCells, withDate \in BOOLEAN,
          date \in {DateStr(2023, 12, 31), DateStr(2024, 1, 31), Garbage} :
          \E k \in (PROGRESS_EVERY - Slack)..n :
             /\ (~withDate => date = Garbage)
             /\ InitCall(LongFrame(n, k, fen, date, withDate))

NextProgress ==
    \/ CopyInput
    \/ SkipFilter
    \/ RaiseMissingColumn
    \/ RaiseDateParse
    \/ FilterByDate
    \/ StartEngine
    \/ StartEngineFails
    \/ LoopInvalid
    \/ LoopInvalidRaises
    \/ LoopEvaluate(SteadyOutcomes)
    \/ Finish

SpecProgress == InitProgress /\ [][NextProgress]_vars

(***************************************************************************)
(* Properties.  They speak of the call through its arguments (orig,       *)
(* start_date, end_date), what it returned or raised, the engine log and  *)
(* the lines printed.                                                      *)
(***************************************************************************)
MissingColumn == "ValueError: DataFrame must have 'date' column for date filtering"

\* The exceptions raised before the loop is entered.
RaisedBeforeLoop == {MissingColumn, "DateParseError", "EngineStartError"}

\* States in which the loop has been entered, whatever came of it.
LoopEntered ==
    \/ pc \in {"loop", "returned"}
    \/ pc = "raised" /\ exc \notin RaisedBeforeLoop

\* States in which the date filter is done with.
FilterDone ==
    \/ pc = "engine"
    \/ LoopEntered
    \/ pc = "raised" /\ exc = "EngineStartError"

\* Year-month a <= year-month b, each <<year, month>>.
MonthLE(a, b) == a[1] < b[1] \/ (a[1] = b[1] /\ a[2] <= b[2])

\* The date is a calendar date whose year-month lies within the range asked for.
InRange(date) ==
    /\ IsStr(date)
    /\ Len(date.text) = 3
    /\ start_date # None => MonthLE(start_date.text, <<date.text[1], date.text[2]>>)
    /\ end_date # None => MonthLE(<<date.text[1], date.text[2]>>, end_date.text)

Survives(row) == ~FilterRequested \/ InRange(row["date"])

\* The rows of move_df that survive the date filter, in move_df's order.
Survivors == SelectSeq(orig.rows, Survives)

\* The calls the engine log holds for row k of the rows looped over.
CallsAt(k) == {j \in 1..Len(engine_log) : engine_log[j].at = k}

\* The position is a string python-chess parses into a legal position.
PassesValidation(fen) == fen.t = "str" /\ fen.fen = "legal"

IsScore(e, v) ==
    /\ e.t = "float"
    /\ ~e.nan
    /\ e.neg = (v < 0)
    /\ 100 * e.whole + e.frac = (IF v < 0 THEN -v ELSE v)
    /\ e.frac \in 0..99

IsMate(e, n) == e.t = "str" /\ e.text = <<"M">> \o IntStr(n)

\* C1: a completed call returns exactly the rows that survive the date
\* filter, in move_df's order, none dropped, duplicated or reordered, each
\* with the columns it had and one eval; with no date range the result is
\* as long as move_df.
C1_OutputIsTheSurvivors ==
    pc = "returned" =>
        /\ Len(ret.rows) = Len(Survivors)
        /\ \A k \in 1..Len(ret.rows) :
              /\ ret.rows[k]["other"] = Survivors[k]["other"]
              /\ ret.rows[k]["fen"] = Survivors[k]["fen"]
              /\ DOMAIN ret.rows[k] = DOMAIN Survivors[k] \cup {"eval"}
              /\ ret.rows[k]["eval"] = evals[k]
        /\ Len(evals) = Len(ret.rows)
        /\ ~FilterRequested => Len(ret.rows) = Len(orig.rows)

C1_Witness ==
    /\ pc = "returned"
    /\ FilterRequested
    /\ Len(ret.rows) >= 1
    /\ Len(ret.rows) < Len(orig.rows)
    /\ ret.rows[1]["other"] = 2

\* C2: a row whose fen fails validation has eval None, and no call is made
\* on the engine for it.
C2_InvalidNeverReachesEngine ==
    LoopEntered =>
        \A k \in 1..Len(heap[df].rows) :
            ~PassesValidation(heap[df].rows[k]["fen"]) =>
                /\ CallsAt(k) = {}
                /\ k <= Len(evals) => evals[k] = None
                /\ pc = "returned" => ret.rows[k]["eval"] = None

C2_Witness ==
    /\ pc = "returned"
    /\ Len(ret.rows) = 2
    /\ ~PassesValidation(ret.rows[1]["fen"])
    /\ ret.rows[1]["eval"] = None
    /\ CallsAt(2) # {}

\* C3: a row on which the engine raised has eval None, the loop went on
\* past it, and every row the engine answered has the eval of its own answer.
C3_EngineFailureIsIsolated ==
    LoopEntered =>
        \A k \in 1..Len(heap[df].rows) :
            /\ (\E j \in CallsAt(k) : engine_log[j].raised) =>
                  /\ pos >= k
                  /\ Len(evals) >= k
                  /\ evals[k] = None
                  /\ pc = "raised" => exc = "TypeError" /\ pos < Len(heap[df].rows)
            /\ (k <= Len(evals) /\ CallsAt(k) # {}
                  /\ \A j \in CallsAt(k) : ~engine_log[j].raised) =>
                  \E j \in CallsAt(k) :
                      /\ engine_log[j].op = "get_evaluation"
                      /\ LET x == ExtractValue(engine_log[j].result)
                         IN evals[k] = (IF x.raised THEN None ELSE x.value)

C3_Witness ==
    /\ pc = "returned"
    /\ Len(evals) = 2
    /\ \E j \in CallsAt(1) : engine_log[j].raised
    /\ evals[1] = None
    /\ evals[2].t = "float"

\* C4: with a date range and no date column, the call raises the missing
\* column ValueError, the engine is never started and never called.
C4_MissingColumnBeforeEngine ==
    (FilterRequested /\ "date" \notin orig.columns) =>
        /\ pc \in {"call", "filter", "raised"}
        /\ pc = "raised" => exc = MissingColumn
        /\ stockfish = "unbound"
        /\ engine_log = <<>>

C4_Witness ==
    /\ pc = "raised"
    /\ exc = MissingColumn
    /\ "date" \notin orig.columns
    /\ Len(orig.rows) >= 1

\* C5: a call either raises the missing column ValueError or returns; no
\* other exception leaves it.
C5_OnlyMissingColumnEscapes ==
    pc = "raised" => exc = MissingColumn

\* C6: when the call has ended, by return or by exception, the engine
\* handle it opened is not open any more.
C6_HandleReleasedAtExit ==
    pc \in {"returned", "raised"} => stockfish # "open"

\* C7: with a date range, a row is kept if and only if its date's
\* year-month is within the range, the day ignored.
C7_KeptIffYearMonthInRange ==
    (FilterRequested /\ FilterDone) =>
        \A k \in 1..Len(orig.rows) :
            (\E j \in 1..Len(heap[df].rows) : heap[df].rows[j]["other"] = k)
                <=> InRange(orig.rows[k]["date"])

C7_Witness ==
    /\ pc = "engine"
    /\ start_date # None
    /\ end_date # None
    /\ Len(orig.rows) = 2
    /\ orig.rows[1]["date"] = DateStr(2023, 12, 31)
    /\ orig.rows[2]["date"] = DateStr(2024, 1, 31)
    /\ Len(heap[df].rows) = 1
    /\ heap[df].rows[1]["other"] = 2

\* C8: the eval of a row the engine answered is the score value/100 for an
\* answer of type cp, the mate marker "M<value>" for one of type mate, and
\* neither a score nor a mate marker for any other answer.
C8_EvalFromAnswerAlone ==
    LoopEntered =>
        \A k \in 1..Len(evals) :
            \A j \in CallsAt(k) :
                (engine_log[j].op = "get_evaluation" /\ ~engine_log[j].raised) =>
                    LET d == engine_log[j].result
                        typed == HasKey(d, "type") /\ HasKey(d, "value")
                    IN IF typed /\ DictGet(d, "type") = "cp"
                       THEN IsScore(evals[k], DictGet(d, "value"))
                       ELSE IF typed /\ DictGet(d, "type") = "mate"
                            THEN IsMate(evals[k], DictGet(d, "value"))
                            ELSE evals[k] = None

\* C9: the caller's move_df is as it was when the call was made.
C9_SourceUnchanged == heap.caller = orig

C9_Witness ==
    /\ pc = "returned"
    /\ FilterRequested
    /\ Len(ret.rows) >= 1
    /\ Len(ret.rows) < Len(orig.rows)
    /\ ret.columns # orig.columns

\* The rows among the first m looped over whose fen failed validation.
InvalidAmong(m) == {k \in 1..m : ~PassesValidation(heap[df].rows[k]["fen"])}

\* C10: a progress line is printed after every 50th row the loop is done
\* with, giving the rows done, the total and the invalid rows so far; the
\* summary gives the total and the invalid rows.
C10_ProgressEveryFiftieth ==
    pc \in {"loop", "returned"} =>
        /\ \A m \in 1..pos :
              m % PROGRESS_EVERY = 0 =>
                 \E l \in 1..Len(stdout) :
                     stdout[l] = [line |-> "Evaluated", n |-> m,
                                  total |-> Len(heap[df].rows),
                                  invalid |-> Cardinality(InvalidAmong(m))]
        /\ pc = "returned" =>
              /\ stdout[Len(stdout) - 1] =
                    [line |-> "Completed", total |-> Len(ret.rows)]
              /\ stdout[Len(stdout)] =
                    [line |-> "Invalid FENs",
                     invalid |-> Cardinality(InvalidAmong(Len(ret.rows)))]

====
